---- MODULE Spec2Model ----
(***************************************************************************)
(* A model of sum-lengths.py, length_utils.py and soulver-sum-lengths.py:  *)
(* the number and unit parsers, the display normalisers, the result        *)
(* formatters, the term splitter, and the run of main().                   *)
(*                                                                         *)
(* Text is a sequence of one-character strings.  A Python float is a       *)
(* rational <<numerator, denominator>> in lowest terms with a positive     *)
(* denominator, so arithmetic is exact; where a float is rounded and the   *)
(* exact quantity is a tie that the float arithmetic may miss, the float   *)
(* falls on either side of it (fp); a regular expression is the            *)
(* ordered sequence of its candidate matches, in the order in which the    *)
(* backtracking matcher of `re` tries them, and the match is the first.    *)
(***************************************************************************)
EXTENDS Integers, Sequences, FiniteSets, TLC

VARIABLES
    op,               \* the entry point this run exercises
    shape,            \* what the input text was built from
    term,             \* the text argument of the function called
    value_inches,     \* the numeric argument of the function called
    args,             \* sys.argv[1:]
    stdin,            \* the lines input() will return, then EOF
    ret,              \* what the function called returned or raised
    pc,               \* main(): where the run is
    input_terms,      \* main(): input_terms
    idx,              \* main(): the terms converted so far
    total_inches,     \* main(): total_inches
    normalized_terms, \* main(): normalized_terms
    stdout,           \* what was printed to sys.stdout
    stderr,           \* what was printed to sys.stderr
    exit_code,        \* the process's exit status
    clipboard,        \* what pbcopy received
    fp                \* where the floats that were rounded fell at a tie

vars == <<op, shape, term, value_inches, args, stdin, ret, pc, input_terms, idx,
          total_inches, normalized_terms, stdout, stderr, exit_code, clipboard, fp>>

(***************************************************************************)
(* Bounds of the model.                                                    *)
(***************************************************************************)
\* whole parts, numerators and denominators of the numbers written: 0..MaxNum
MaxNum == 2

(***************************************************************************)
(* Characters.                                                             *)
(***************************************************************************)
DigitChars == <<"0", "1", "2", "3", "4", "5", "6", "7", "8", "9">>

LowerChars == <<"a", "b", "c", "d", "e", "f", "g", "h", "i", "j", "k", "l", "m",
                "n", "o", "p", "q", "r", "s", "t", "u", "v", "w", "x", "y", "z">>

UpperChars == <<"A", "B", "C", "D", "E", "F", "G", "H", "I", "J", "K", "L", "M",
                "N", "O", "P", "Q", "R", "S", "T", "U", "V", "W", "X", "Y", "Z">>

Range(f) == {f[k] : k \in DOMAIN f}

\* \d
IsDigit(c) == c \in Range(DigitChars)

\* \s, and the characters str.strip() removes
IsSpace(c) == c \in {" ", "\t", "\n"}

\* [A-Za-z]
IsAlpha(c) == c \in Range(LowerChars) \cup Range(UpperChars)

\* \w
IsWordChar(c) == IsAlpha(c) \/ IsDigit(c) \/ c = "_"

DigitVal(c) == (CHOOSE k \in 1..10 : DigitChars[k] = c) - 1

\* str.lower() of one character, and the case folding of re.I
Lower(c) ==
    IF c \in Range(UpperChars)
    THEN LowerChars[CHOOSE k \in 1..26 : UpperChars[k] = c]
    ELSE c

Upper(c) ==
    IF c \in Range(LowerChars)
    THEN UpperChars[CHOOSE k \in 1..26 : LowerChars[k] = c]
    ELSE c

LowerStr(s) == [k \in 1..Len(s) |-> Lower(s[k])]

UpperStr(s) == [k \in 1..Len(s) |-> Upper(s[k])]

\* s[i-1:j-1] of Python, for 1-based positions i <= j <= Len(s)+1
Slice(s, i, j) == [k \in 1..(j - i) |-> s[i + k - 1]]

\* str.strip()
Strip(s) ==
    LET n == Len(s)
        NonSpace == {k \in 1..n : ~IsSpace(s[k])}
        Min(S) == CHOOSE x \in S : \A y \in S : x <= y
        Max(S) == CHOOSE x \in S : \A y \in S : x >= y
    IN  IF NonSpace = {} THEN <<>> ELSE Slice(s, Min(NonSpace), Max(NonSpace) + 1)

\* int() of a string of digits
RECURSIVE StrToInt(_)
StrToInt(ds) ==
    IF ds = <<>> THEN 0
    ELSE StrToInt(SubSeq(ds, 1, Len(ds) - 1)) * 10 + DigitVal(ds[Len(ds)])

\* str() of an integer
RECURSIVE NatToStr(_)
NatToStr(n) ==
    IF n < 10 THEN <<DigitChars[n + 1]>>
    ELSE NatToStr(n \div 10) \o <<DigitChars[(n % 10) + 1]>>

IntToStr(n) == IF n < 0 THEN <<"-">> \o NatToStr(-n) ELSE NatToStr(n)

(***************************************************************************)
(* Floats, as exact rationals.                                             *)
(***************************************************************************)
Abs(n) == IF n < 0 THEN -n ELSE n

\* math.gcd
RECURSIVE gcd(_, _)
gcd(a, b) == IF b = 0 THEN a ELSE gcd(b, a % b)

Rat(n, d) == LET g == gcd(Abs(n), d) IN <<n \div g, d \div g>>

Zero == <<0, 1>>

\* the sum, over the least common denominator
RAdd(a, b) ==
    LET g == gcd(a[2], b[2])
    IN  Rat(a[1] * (b[2] \div g) + b[1] * (a[2] \div g), (a[2] \div g) * b[2])

RNeg(a) == <<-a[1], a[2]>>

RSub(a, b) == RAdd(a, RNeg(b))

\* the product, common factors cancelled first
RMul(a, b) ==
    LET g == gcd(Abs(a[1]), b[2])
        h == gcd(Abs(b[1]), a[2])
    IN  Rat((a[1] \div g) * (b[1] \div h), (a[2] \div h) * (b[2] \div g))

RAbs(a) == <<Abs(a[1]), a[2]>>

RLess(a, b) == RSub(a, b)[1] < 0

\* int() of a float: truncation toward zero
Trunc(a) == IF a[1] >= 0 THEN a[1] \div a[2] ELSE -((-a[1]) \div a[2])

\* round() with a tie going away from zero
round_half_away(a) ==
    LET f == a[1] \div a[2]
        r == a[1] - f * a[2]
    IN  IF 2 * r < a[2] THEN f
        ELSE IF 2 * r > a[2] THEN f + 1
        ELSE IF a[1] < 0 THEN f ELSE f + 1

\* round() of a float: the nearest integer, a tie going to the even one
round(a) ==
    LET f == a[1] \div a[2]
        r == a[1] - f * a[2]
    IN  IF 2 * r < a[2] THEN f
        ELSE IF 2 * r > a[2] THEN f + 1
        ELSE IF f % 2 = 0 THEN f ELSE f + 1

\* a float holds a exactly: its denominator is a power of two
RECURSIVE IsPowerOfTwo(_)
IsPowerOfTwo(d) == d = 1 \/ (d % 2 = 0 /\ IsPowerOfTwo(d \div 2))

IsBinary(a) == IsPowerOfTwo(a[2])

\* a lies halfway between two integers
IsTie(a) == 2 * (a[1] - (a[1] \div a[2]) * a[2]) = a[2]

\* the float computed for a quantity is the quantity itself, or falls next to
\* it on one side
Sides == {"below", "exact", "above"}

\* round() of the float computed for the quantity a: when a is a tie and the
\* float is not known to be exact, the float may fall on either side of it
round_float(a, exact, side) ==
    IF ~IsTie(a) \/ exact \/ side = "exact" THEN round(a)
    ELSE IF side = "below" THEN a[1] \div a[2]
    ELSE (a[1] \div a[2]) + 1

RECURSIVE Pow10(_)
Pow10(k) == IF k = 0 THEN 1 ELSE 10 * Pow10(k - 1)

(***************************************************************************)
(* Regular expressions: candidate ends in backtracking order.              *)
(***************************************************************************)
\* the candidates F yields for each element of xs, in order
ConcatMap(F(_), xs) ==
    LET f[k \in 0..Len(xs)] == IF k = 0 THEN <<>> ELSE f[k - 1] \o F(xs[k])
    IN  f[Len(xs)]

\* the length of the longest run of characters satisfying P from position i
Run(P(_), s, i) ==
    CHOOSE n \in 0..(Len(s) + 1 - i) :
        /\ \A k \in i..(i + n - 1) : P(s[k])
        /\ (i + n > Len(s) \/ ~P(s[i + n]))

\* a greedy repetition of at least min characters satisfying P from position
\* i: where it may end, the longest first
GreedyEnds(P(_), s, i, min) ==
    LET n == Run(P, s, i)
    IN  [k \in 1..(n - min + 1) |-> i + n - (k - 1)]

\* a literal word at position i, under re.I when fold is TRUE
MatchLit(s, i, w, fold) ==
    /\ i + Len(w) - 1 <= Len(s)
    /\ \A k \in 1..Len(w) :
          IF fold THEN Lower(s[i + k - 1]) = Lower(w[k]) ELSE s[i + k - 1] = w[k]

\* \b at position i: exactly one side is a word character
WordBoundary(s, i) ==
    LET before == i > 1 /\ IsWordChar(s[i - 1])
        after  == i <= Len(s) /\ IsWordChar(s[i])
    IN  before # after

(***************************************************************************)
(* What a call returns or raises.                                          *)
(***************************************************************************)
None == [kind |-> "None"]

Returned(v) == [kind |-> "return", val |-> v]

Raised(exc, msg) == [kind |-> "raise", exc |-> exc, msg |-> msg]

(***************************************************************************)
(* MIXED_NUMBER_PATTERN and parse_number.                                  *)
(***************************************************************************)
\* an optional sign [-+]? at position p: taken first, skipped second
SignEnds(s, p) ==
    IF p <= Len(s) /\ s[p] \in {"-", "+"} THEN <<p + 1, p>> ELSE <<p>>

\* \s*$ at position p
TailMatches(s, p) == p + Run(IsSpace, s, p) = Len(s) + 1

\* (?P<whole>\d+)\s+(?P<num>\d+)/(?P<den>\d+) \s*$ at position p
MixedAlternative(s, p) ==
    ConcatMap(LAMBDA w :
      ConcatMap(LAMBDA x :
        ConcatMap(LAMBDA n :
          IF n <= Len(s) /\ s[n] = "/"
          THEN ConcatMap(LAMBDA d :
                 IF TailMatches(s, d)
                 THEN <<[whole |-> Slice(s, p, w), num |-> Slice(s, x, n),
                         den |-> Slice(s, n + 1, d), num2 |-> <<>>,
                         den2 |-> <<>>, float |-> <<>>]>>
                 ELSE <<>>,
                 GreedyEnds(IsDigit, s, n + 1, 1))
          ELSE <<>>,
          GreedyEnds(IsDigit, s, x, 1)),
        GreedyEnds(IsSpace, s, w, 1)),
      GreedyEnds(IsDigit, s, p, 1))

\* (?P<num2>\d+)/(?P<den2>\d+) \s*$ at position p
FractionAlternative(s, p) ==
    ConcatMap(LAMBDA n :
      IF n <= Len(s) /\ s[n] = "/"
      THEN ConcatMap(LAMBDA d :
             IF TailMatches(s, d)
             THEN <<[whole |-> <<>>, num |-> <<>>, den |-> <<>>,
                     num2 |-> Slice(s, p, n), den2 |-> Slice(s, n + 1, d),
                     float |-> <<>>]>>
             ELSE <<>>,
             GreedyEnds(IsDigit, s, n + 1, 1))
      ELSE <<>>,
      GreedyEnds(IsDigit, s, p, 1))

\* (?P<float>\d+(?:\.\d+)?) \s*$ at position p
FloatAlternative(s, p) ==
    ConcatMap(LAMBDA n :
      (IF n <= Len(s) /\ s[n] = "."
       THEN ConcatMap(LAMBDA d :
              IF TailMatches(s, d)
              THEN <<[whole |-> <<>>, num |-> <<>>, den |-> <<>>, num2 |-> <<>>,
                      den2 |-> <<>>, float |-> Slice(s, p, d)]>>
              ELSE <<>>,
              GreedyEnds(IsDigit, s, n + 1, 1))
       ELSE <<>>)
      \o (IF TailMatches(s, n)
          THEN <<[whole |-> <<>>, num |-> <<>>, den |-> <<>>, num2 |-> <<>>,
                  den2 |-> <<>>, float |-> Slice(s, p, n)]>>
          ELSE <<>>),
      GreedyEnds(IsDigit, s, p, 1))

\* MIXED_NUMBER_PATTERN.match(s): every way to match, in the matcher's order;
\* each is the groups of the match, an unmatched group being empty
MIXED_NUMBER_PATTERN(s) ==
    ConcatMap(LAMBDA a :
      ConcatMap(LAMBDA b :
        ConcatMap(LAMBDA c :
          LET sign == Slice(s, a, b)
              Tag(m) == [sign |-> sign, whole |-> m.whole, num |-> m.num,
                         den |-> m.den, num2 |-> m.num2, den2 |-> m.den2,
                         float |-> m.float]
              found == MixedAlternative(s, c) \o FractionAlternative(s, c)
                       \o FloatAlternative(s, c)
          IN  [k \in 1..Len(found) |-> Tag(found[k])],
          GreedyEnds(IsSpace, s, b, 0)),
        SignEnds(s, a)),
      GreedyEnds(IsSpace, s, 1, 0))

\* float() of \d+(?:\.\d+)?
StrToFloat(ds) ==
    LET dots == {k \in 1..Len(ds) : ds[k] = "."}
    IN  IF dots = {} THEN <<StrToInt(ds), 1>>
        ELSE LET k == CHOOSE x \in dots : TRUE
                 frac == Slice(ds, k + 1, Len(ds) + 1)
             IN  RAdd(<<StrToInt(Slice(ds, 1, k)), 1>>,
                      Rat(StrToInt(frac), Pow10(Len(frac))))

\* lines 90 and 98 with the test left out
DenominatorIsZero_Unchecked(denominator) == FALSE

\* the guard of lines 90 and 98
DenominatorIsZero(denominator) == denominator = 0

\* line 92 with the sign applied to the whole part alone
MixedValue_SignOnWhole(sign, whole, fraction) == RAdd(RMul(sign, <<whole, 1>>), fraction)

\* line 92: sign * (whole + numerator / denominator)
MixedValue(sign, whole, fraction) == RMul(sign, RAdd(<<whole, 1>>, fraction))

\* numerator / denominator
TrueDiv(numerator, denominator) ==
    IF denominator = 0 THEN Raised("ZeroDivisionError", "division by zero")
    ELSE Returned(Rat(numerator, denominator))

\* line 92 once the quotient q is computed, or has raised
SignedMixed(sign, whole, q) ==
    IF q.kind = "raise" THEN q ELSE Returned(MixedValue(sign, whole, q.val))

\* line 100 once the quotient q is computed, or has raised
SignedFraction(sign, q) ==
    IF q.kind = "raise" THEN q ELSE Returned(RMul(sign, q.val))

\* lines 86-92: a mixed number
MixedNumber(sign, whole, numerator, denominator) ==
    IF DenominatorIsZero(denominator)
    THEN Raised("ValueError", "Division by zero in fraction")
    ELSE SignedMixed(sign, whole, TrueDiv(numerator, denominator))

\* lines 95-100: a fraction
Fraction(sign, numerator, denominator) ==
    IF DenominatorIsZero(denominator)
    THEN Raised("ValueError", "Division by zero in fraction")
    ELSE SignedFraction(sign, TrueDiv(numerator, denominator))

\* lines 83-103: the value of a match, with its sign
MatchValue(match, sign) ==
    IF match.whole # <<>>
    THEN MixedNumber(sign, StrToInt(match.whole), StrToInt(match.num), StrToInt(match.den))
    ELSE IF match.num2 # <<>>
    THEN Fraction(sign, StrToInt(match.num2), StrToInt(match.den2))
    ELSE Returned(RMul(sign, StrToFloat(match.float)))

\* line 83: sign = -1.0 if match.group("sign") == "-" else 1.0
SignOf(match) == IF match.sign = <<"-">> THEN <<-1, 1>> ELSE <<1, 1>>

\* lines 79-103 on the matches of the pattern: none, or the first
ParseMatches(matches) ==
    IF matches = <<>> THEN Raised("ValueError", "Cannot parse number")
    ELSE MatchValue(matches[1], SignOf(matches[1]))

parse_number(value_str) == ParseMatches(MIXED_NUMBER_PATTERN(value_str))

(***************************************************************************)
(* UNIT_FACTORS, UNIT_PAIR_PATTERN and convert_to_inches.                  *)
(***************************************************************************)
\* the characters U+2033 (double prime) and U+2032 (prime), one element each
DoublePrime == "U+2033"

Prime == "U+2032"

U_inch == <<"i", "n", "c", "h">>

U_inche == <<"i", "n", "c", "h", "e">>

U_inches == <<"i", "n", "c", "h", "e", "s">>

U_in == <<"i", "n">>

U_foot == <<"f", "o", "o", "t">>

U_fee == <<"f", "e", "e">>

U_feet == <<"f", "e", "e", "t">>

U_ft == <<"f", "t">>

U_millimeter == <<"m", "i", "l", "l", "i", "m", "e", "t", "e", "r">>

U_millimeters == U_millimeter \o <<"s">>

U_mm == <<"m", "m">>

U_centimeter == <<"c", "e", "n", "t", "i", "m", "e", "t", "e", "r">>

U_centimeters == U_centimeter \o <<"s">>

U_cm == <<"c", "m">>

U_meter == <<"m", "e", "t", "e", "r">>

U_meters == U_meter \o <<"s">>

U_m == <<"m">>

MM_PER_INCH == <<127, 5>>

\* 1.0/MM_PER_INCH
PerMillimeter == <<MM_PER_INCH[2], MM_PER_INCH[1]>>

\* 1.0/2.54
PerCentimeter == <<50, 127>>

\* 39.37007874015748, the double nearest to 1/0.0254 = 5000/127
PerMeter == <<5000, 127>>

InchKeys == {U_inch, U_inches, U_in, <<"\"">>, <<DoublePrime>>}

FootKeys == {U_foot, U_feet, U_ft, <<"'">>, <<Prime>>}

MillimeterKeys == {U_millimeter, U_millimeters, U_mm}

CentimeterKeys == {U_centimeter, U_centimeters, U_cm}

MeterKeys == {U_meter, U_meters, U_m}

UNIT_FACTORS ==
    [u \in InchKeys \cup FootKeys \cup MillimeterKeys \cup CentimeterKeys
           \cup MeterKeys |->
        IF u \in InchKeys THEN <<1, 1>>
        ELSE IF u \in FootKeys THEN <<12, 1>>
        ELSE IF u \in MillimeterKeys THEN PerMillimeter
        ELSE IF u \in CentimeterKeys THEN PerCentimeter
        ELSE PerMeter]

\* a word with an optional last letter, as inches? : with the letter first
OptionalLast(s, u, stem, last) ==
    IF MatchLit(s, u, stem, TRUE)
    THEN (IF MatchLit(s, u + Len(stem), <<last>>, TRUE)
          THEN <<u + Len(stem) + 1>> ELSE <<>>) \o <<u + Len(stem)>>
    ELSE <<>>

\* one literal alternative
Literal(s, u, w) == IF MatchLit(s, u, w, TRUE) THEN <<u + Len(w)>> ELSE <<>>

\* one character of a class
OneOf(s, u, class) == IF u <= Len(s) /\ s[u] \in class THEN <<u + 1>> ELSE <<>>

\* the unit group of UNIT_PAIR_PATTERN at position u: where it may end
UnitEnds(s, u) ==
    OptionalLast(s, u, U_inche, "s") \o Literal(s, u, U_in)
    \o OneOf(s, u, {"\"", DoublePrime})
    \o OptionalLast(s, u, U_fee, "t") \o Literal(s, u, U_ft)
    \o OneOf(s, u, {"'", Prime})
    \o OptionalLast(s, u, U_millimeter, "s") \o Literal(s, u, U_mm)
    \o OptionalLast(s, u, U_centimeter, "s") \o Literal(s, u, U_cm)
    \o OptionalLast(s, u, U_meter, "s") \o Literal(s, u, U_m)

\* [-+]?\d+(?:\s+\d+/\d+)? at position p: where it may end
ValMixedEnds(s, p) ==
    ConcatMap(LAMBDA a :
      ConcatMap(LAMBDA w :
        ConcatMap(LAMBDA x :
          ConcatMap(LAMBDA n :
            IF n <= Len(s) /\ s[n] = "/"
            THEN GreedyEnds(IsDigit, s, n + 1, 1) ELSE <<>>,
            GreedyEnds(IsDigit, s, x, 1)),
          GreedyEnds(IsSpace, s, w, 1))
        \o <<w>>,
        GreedyEnds(IsDigit, s, a, 1)),
      SignEnds(s, p))

\* [-+]?\d*\.\d+ at position p
ValDecimalEnds(s, p) ==
    ConcatMap(LAMBDA a :
      ConcatMap(LAMBDA n :
        IF n <= Len(s) /\ s[n] = "."
        THEN GreedyEnds(IsDigit, s, n + 1, 1) ELSE <<>>,
        GreedyEnds(IsDigit, s, a, 0)),
      SignEnds(s, p))

\* [-+]?\d+/\d+ at position p
ValFractionEnds(s, p) ==
    ConcatMap(LAMBDA a :
      ConcatMap(LAMBDA n :
        IF n <= Len(s) /\ s[n] = "/"
        THEN GreedyEnds(IsDigit, s, n + 1, 1) ELSE <<>>,
        GreedyEnds(IsDigit, s, a, 1)),
      SignEnds(s, p))

\* UNIT_PAIR_PATTERN at position p: every way to match, in the matcher's order
UnitPairAt(s, p) ==
    ConcatMap(LAMBDA v :
      ConcatMap(LAMBDA u :
        LET ends == UnitEnds(s, u)
        IN  [k \in 1..Len(ends) |->
                [val |-> Slice(s, p, v), unit |-> Slice(s, u, ends[k]),
                 start |-> p, end |-> ends[k]]],
        GreedyEnds(IsSpace, s, v, 0)),
      ValMixedEnds(s, p) \o ValDecimalEnds(s, p) \o ValFractionEnds(s, p))

\* UNIT_PAIR_PATTERN.finditer(s) from position p: the leftmost match, then the
\* matches after its end
RECURSIVE UNIT_PAIR_PATTERN(_, _)
UNIT_PAIR_PATTERN(s, p) ==
    IF p > Len(s) THEN <<>>
    ELSE LET here == UnitPairAt(s, p)
         IN  IF here = <<>> THEN UNIT_PAIR_PATTERN(s, p + 1)
             ELSE <<here[1]>> \o UNIT_PAIR_PATTERN(s, here[1].end)

\* lines 133-136: the quote marks become unit words
NormalizeQuoteUnit(unit) ==
    IF unit \in {<<"\"">>, <<DoublePrime>>} THEN U_inches
    ELSE IF unit \in {<<"'">>, <<Prime>>} THEN U_feet
    ELSE unit

\* UNIT_FACTORS.get(unit)
FactorOf(unit) ==
    IF unit \in DOMAIN UNIT_FACTORS THEN Returned(UNIT_FACTORS[unit]) ELSE None

RECURSIVE SumPairs(_, _, _)

\* lines 138-142 for the k-th match, its value parsed and its factor looked up
AddPair(matches, k, total, value, factor) ==
    IF value.kind = "raise" THEN value
    ELSE IF factor = None THEN Raised("ValueError", "Unsupported unit")
    ELSE SumPairs(matches, k + 1, RAdd(total, RMul(value.val, factor.val)))

\* the loop of lines 127-142 over the matches from the k-th on
SumPairs(matches, k, total) ==
    IF k > Len(matches) THEN Returned(total)
    ELSE AddPair(matches, k, total, parse_number(matches[k].val),
                 FactorOf(NormalizeQuoteUnit(LowerStr(matches[k].unit))))

\* lines 127-146: the pairs found are summed; with none the term is a number
ConvertMatches(stripped, matches) ==
    IF matches # <<>> THEN SumPairs(matches, 1, Zero) ELSE parse_number(stripped)

\* lines 123-146 on the stripped term
ConvertStripped(stripped) == ConvertMatches(stripped, UNIT_PAIR_PATTERN(stripped, 1))

convert_to_inches(t) == ConvertStripped(Strip(t))

(***************************************************************************)
(* re.sub, normalize_term_display and norm_units.                          *)
(***************************************************************************)
\* re.sub(pattern, repl, s): the matches are found from left to right, none
\* of them empty; MatchEnd is the end of the match at a position, or 0
SubAll(MatchEnd(_, _), Replacement(_, _, _), s) ==
    LET f[p \in 1..(Len(s) + 1)] ==
            IF p > Len(s) THEN <<>>
            ELSE LET e == MatchEnd(s, p)
                 IN  IF e > p THEN Replacement(s, p, e) \o f[e]
                     ELSE <<s[p]>> \o f[p + 1]
    IN  f[1]

\* re.sub of one character of a class by a text
SubClass(class, text, s) ==
    SubAll(LAMBDA t, p : IF t[p] \in class THEN p + 1 ELSE 0,
           LAMBDA t, p, e : text, s)

\* \b(w1|w2|...)\b at position p: the end of the first alternative that
\* matches and is followed by a word boundary, or 0
WordEnd(s, p, words, fold) ==
    LET ok == {k \in 1..Len(words) :
                  /\ MatchLit(s, p, words[k], fold)
                  /\ WordBoundary(s, p + Len(words[k]))}
    IN  IF WordBoundary(s, p) /\ ok # {}
        THEN p + Len(words[CHOOSE k \in ok : \A j \in ok : k <= j])
        ELSE 0

\* re.sub(r'\b(w1|w2|...)\b', text, s)
SubWords(words, text, s, fold) ==
    SubAll(LAMBDA t, p : WordEnd(t, p, words, fold), LAMBDA t, p, e : text, s)

\* (\d)(?=\s?(w1|w2|...)\b) at position p: the end of the digit, or 0
DigitBeforeUnit(s, p, words, fold) ==
    IF /\ IsDigit(s[p])
       /\ \E gap \in {0, 1} :
             /\ gap = 1 => (p + 1 <= Len(s) /\ IsSpace(s[p + 1]))
             /\ \E k \in 1..Len(words) :
                   /\ MatchLit(s, p + 1 + gap, words[k], fold)
                   /\ WordBoundary(s, p + 1 + gap + Len(words[k]))
    THEN p + 1
    ELSE 0

\* re.sub(r'(\d)(?=\s?(w1|w2|...)\b)', r'\1 ', s)
SpaceBeforeUnit(words, s, fold) ==
    SubAll(LAMBDA t, p : DigitBeforeUnit(t, p, words, fold),
           LAMBDA t, p, e : <<t[p], " ">>, s)

\* re.search(r'[A-Za-z]', s)
HasLetter(s) == \E k \in 1..Len(s) : IsAlpha(s[k])

SpaceInches == <<" ">> \o U_inches

SpaceFeet == <<" ">> \o U_feet

normalize_term_display(t) ==
    LET n0 == Strip(t)
        n1 == SubClass({"\"", DoublePrime}, SpaceInches, n0)
        n2 == SubClass({"'", Prime}, SpaceFeet, n1)
        n3 == SubWords(<<U_in, U_inch, U_inches>>, U_inches, n2, TRUE)
        n4 == SubWords(<<U_ft, U_foot, U_feet>>, U_feet, n3, TRUE)
        n5 == SubWords(<<U_mm, U_millimeters, U_millimeter>>, U_millimeters, n4, TRUE)
        n6 == SubWords(<<U_cm, U_centimeters, U_centimeter>>, U_centimeters, n5, TRUE)
        n7 == SubWords(<<U_m, U_meters, U_meter>>, U_meters, n6, TRUE)
        n8 == SpaceBeforeUnit(<<U_inches, U_feet, U_millimeters, U_centimeters,
                                U_meters>>, n7, TRUE)
    IN  IF HasLetter(n8) THEN n8 ELSE n8 \o SpaceInches

\* (\d+(?:\s+\d+/\d+|\.\d+)?) of RE_FT_IN at position d: where it may end
InchValueEnds(s, d) ==
    ConcatMap(LAMBDA n :
      ConcatMap(LAMBDA x :
        ConcatMap(LAMBDA k :
          IF k <= Len(s) /\ s[k] = "/"
          THEN GreedyEnds(IsDigit, s, k + 1, 1) ELSE <<>>,
          GreedyEnds(IsDigit, s, x, 1)),
        GreedyEnds(IsSpace, s, n, 1))
      \o (IF n <= Len(s) /\ s[n] = "."
          THEN GreedyEnds(IsDigit, s, n + 1, 1) ELSE <<>>)
      \o <<n>>,
      GreedyEnds(IsDigit, s, d, 1))

\* RE_FT_IN at position p: every way to match, in the matcher's order
RE_FT_IN(s, p) ==
    IF ~WordBoundary(s, p) THEN <<>>
    ELSE
    ConcatMap(LAMBDA a :
      ConcatMap(LAMBDA b :
        ConcatMap(LAMBDA c :
          ConcatMap(LAMBDA d :
            ConcatMap(LAMBDA e :
              ConcatMap(LAMBDA f :
                ConcatMap(LAMBDA g :
                  IF WordBoundary(s, g)
                  THEN <<[feet |-> Slice(s, p, a), inches |-> Slice(s, d, e),
                          end |-> g]>>
                  ELSE <<>>,
                  OptionalLast(s, f, U_inche, "s")),
                GreedyEnds(IsSpace, s, e, 0)),
              InchValueEnds(s, d)),
            GreedyEnds(IsSpace, s, c, 0)),
          OptionalLast(s, b, U_fee, "t")),
        GreedyEnds(IsSpace, s, a, 0)),
      GreedyEnds(IsDigit, s, p, 1))

\* RE_FT_IN.sub(r"\1 feet + \2 inches", s)
SubFeetInches(s) ==
    SubAll(LAMBDA t, p : IF RE_FT_IN(t, p) = <<>> THEN 0 ELSE RE_FT_IN(t, p)[1].end,
           LAMBDA t, p, e : RE_FT_IN(t, p)[1].feet \o SpaceFeet \o <<" ", "+", " ">>
                            \o RE_FT_IN(t, p)[1].inches \o SpaceInches,
           s)

\* UNIT_MAP, in the order of the dictionary
UNIT_MAP ==
    <<[pat |-> <<U_ft>>, repl |-> U_feet],
      [pat |-> <<U_feet>>, repl |-> U_feet],
      [pat |-> <<U_in>>, repl |-> U_inches],
      [pat |-> <<U_inch>>, repl |-> U_inches],
      [pat |-> <<U_inches>>, repl |-> U_inches],
      [pat |-> <<U_mm>>, repl |-> U_millimeters],
      [pat |-> <<U_millimeters, U_millimeter>>, repl |-> U_millimeters],
      [pat |-> <<U_cm>>, repl |-> U_centimeters],
      [pat |-> <<U_centimeters, U_centimeter>>, repl |-> U_centimeters]>>

\* the loop of lines 34-35 over the first k entries of UNIT_MAP
RECURSIVE SubUnitMap(_, _)
SubUnitMap(s, k) ==
    IF k = 0 THEN s
    ELSE SubWords(UNIT_MAP[k].pat, UNIT_MAP[k].repl, SubUnitMap(s, k - 1), TRUE)

norm_units(t) ==
    LET s0 == Strip(t)
        s1 == SubClass({"'", Prime}, SpaceFeet, s0)
        s2 == SubClass({"\"", DoublePrime}, SpaceInches, s1)
        s3 == SubFeetInches(s2)
        s4 == SubUnitMap(s3, Len(UNIT_MAP))
        s5 == SpaceBeforeUnit(<<U_millimeters, U_centimeters, U_inches, U_feet>>,
                              s4, FALSE)
        s6 == IF HasLetter(s5) THEN s5 ELSE s5 \o SpaceInches
    IN  IF s0 = <<>> THEN s0 ELSE Strip(s6)

(***************************************************************************)
(* parse_input_args and split_input_terms.                                 *)
(***************************************************************************)
\* \s*[+,]\s* at position p: the end of the match, or 0
SeparatorEnd(s, p) ==
    LET found == ConcatMap(LAMBDA a :
                     IF a <= Len(s) /\ s[a] \in {"+", ","}
                     THEN GreedyEnds(IsSpace, s, a + 1, 0) ELSE <<>>,
                     GreedyEnds(IsSpace, s, p, 0))
    IN  IF found = <<>> THEN 0 ELSE found[1]

\* re.split(r'\s*[+,]\s*', s) from position p, the piece at hand starting at
\* position start
RECURSIVE ReSplit(_, _, _)
ReSplit(s, p, start) ==
    IF p > Len(s) THEN <<Slice(s, start, Len(s) + 1)>>
    ELSE LET e == SeparatorEnd(s, p)
         IN  IF e > p THEN <<Slice(s, start, p)>> \o ReSplit(s, e, e)
             ELSE ReSplit(s, p + 1, start)

\* [p.strip() for p in pieces if p.strip()]
RECURSIVE StripNonEmpty(_)
StripNonEmpty(pieces) ==
    IF pieces = <<>> THEN <<>>
    ELSE (IF Strip(pieces[1]) = <<>> THEN <<>> ELSE <<Strip(pieces[1])>>)
         \o StripNonEmpty(Tail(pieces))

\* line 279 with the test len(parts) >= 1
EnoughParts_AtLeastOne(parts) == Len(parts) >= 1

\* line 279: len(parts) > 1
EnoughParts(parts) == Len(parts) > 1

\* length_utils.split_input_terms
split_input_terms(input_string) ==
    LET parts == StripNonEmpty(ReSplit(input_string, 1, 1))
    IN  IF Len(parts) > 1 THEN parts ELSE <<input_string>>

\* the interactive loop of lines 287-297 over the lines not read yet
RECURSIVE ReadLines(_)
ReadLines(lines) ==
    IF lines = <<>> \/ Strip(lines[1]) = <<>> THEN <<>>
    ELSE <<Strip(lines[1])>> \o ReadLines(Tail(lines))

\* parse_input_args(args), with lines the lines input() returns before EOF
parse_input_args(a, lines) ==
    IF a # <<>>
    THEN LET parts == StripNonEmpty(ReSplit(a[1], 1, 1))
         IN  IF Len(a) = 1 /\ EnoughParts(parts) THEN parts ELSE a
    ELSE ReadLines(lines)

(***************************************************************************)
(* The result formatters.                                                  *)
(***************************************************************************)
DECIMAL_PRECISION == 2

FRACTIONAL_DENOMINATOR == 16

\* line 226 with the fraction left as it was rounded
Divisor_One(numerator, denominator) == 1

\* line 226: divisor = gcd(numerator, denominator)
Divisor(numerator, denominator) == gcd(numerator, denominator)

\* format_fractional_inches on the float computed for v, which is v when exact
fractional_inches(v, denominator, exact, side) ==
    LET sign           == IF RLess(v, Zero) THEN <<"-">> ELSE <<>>
        abs_value      == RAbs(v)
        whole0         == Trunc(abs_value)
        numerator0     == round_float(RMul(RSub(abs_value, <<whole0, 1>>),
                                           <<denominator, 1>>), exact, side)
        carry          == numerator0 = denominator
        whole          == IF carry THEN whole0 + 1 ELSE whole0
        numerator      == IF carry THEN 0 ELSE numerator0
        divisor        == Divisor(numerator, denominator)
        simplified_num == numerator \div divisor
        simplified_den == denominator \div divisor
        fraction       == NatToStr(simplified_num) \o <<"/">> \o NatToStr(simplified_den)
    IN  IF numerator = 0 THEN sign \o NatToStr(whole) \o <<"\"">>
        ELSE IF whole # 0
             THEN sign \o NatToStr(whole) \o <<" ">> \o fraction \o <<"\"">>
        ELSE sign \o fraction \o <<"\"">>

\* format_fractional_inches(value_inches, denominator): value_inches is a
\* float, and a tie in 1/denominator of an inch is held exactly
format_fractional_inches(v, denominator) == fractional_inches(v, denominator, TRUE, "exact")

\* length_utils.format_fractional_inches: the same text as sum-lengths.py's
lu_format_fractional_inches(v, denominator) == format_fractional_inches(v, denominator)

\* soulver-sum-lengths.frac_1_16
frac_1_16(x_in) ==
    LET sign  == IF RLess(x_in, Zero) THEN <<"-">> ELSE <<>>
        x     == RAbs(x_in)
        whole0 == Trunc(x)
        num0  == round(RMul(RSub(x, <<whole0, 1>>), <<16, 1>>))
        whole == IF num0 = 16 THEN whole0 + 1 ELSE whole0
        num   == IF num0 = 16 THEN 0 ELSE num0
        g     == gcd(num, 16)
    IN  IF num = 0 THEN sign \o NatToStr(whole) \o <<"\"">>
        ELSE IF whole # 0
             THEN sign \o NatToStr(whole) \o <<" ">> \o NatToStr(num \div g) \o <<"/">>
                  \o NatToStr(16 \div g) \o <<"\"">>
        ELSE sign \o NatToStr(num \div g) \o <<"/">> \o NatToStr(16 \div g) \o <<"\"">>

\* n in at least width digits
ZeroPadded(n, width) ==
    LET ds == NatToStr(n)
    IN  [k \in 1..(width - Len(ds)) |-> "0"] \o ds

\* f'{v:.{precision}f}"' of the float computed for v: the nearest multiple of
\* 10^-precision, its sign kept when the digits are all zero
decimal_inches(v, precision, exact, side) ==
    LET scaled == round_float(RMul(RAbs(v), <<Pow10(precision), 1>>), exact, side)
    IN  (IF RLess(v, Zero) THEN <<"-">> ELSE <<>>)
        \o NatToStr(scaled \div Pow10(precision))
        \o (IF precision > 0
            THEN <<".">> \o ZeroPadded(scaled % Pow10(precision), precision)
            ELSE <<>>)
        \o <<"\"">>

\* format_decimal_inches(value_inches, precision): the float value_inches is
\* the one nearest to v, and is v when a float holds v exactly
format_decimal_inches(v, precision, side) == decimal_inches(v, precision, IsBinary(v), side)

MillimeterSuffix == <<" ", "m", "m">>

\* f"{round(mm_value)} mm"
millimeters(mm_value, side) == IntToStr(round_float(mm_value, FALSE, side)) \o MillimeterSuffix

\* format_millimeters(value_inches, mm_per_inch): the product is a float
format_millimeters(v, mm_per_inch, side) == millimeters(RMul(v, mm_per_inch), side)

(***************************************************************************)
(* The inputs: numbers and terms as they are written.                      *)
(***************************************************************************)
\* the numbers written: 0..MaxNum and one of two digits
Numbers == (0..MaxNum) \cup {12}

NoSign == <<>>

Signs == {NoSign, <<"+">>, <<"-">>}

Num(sign, kind, W, N, D) == [sign |-> sign, kind |-> kind, W |-> W, N |-> N, D |-> D]

\* the integers W, decimals W.N, fractions N/D and mixed numbers W N/D
NumShapes(signs, ws, ns, ds) ==
    {Num(sg, "int", w, 0, 0) : sg \in signs, w \in ws}
    \cup {Num(sg, "dec", w, n, 0) : sg \in signs, w \in ws, n \in ns}
    \cup {Num(sg, "frac", 0, n, d) : sg \in signs, n \in ns, d \in ds}
    \cup {Num(sg, "mixed", w, n, d) : sg \in signs, w \in ws, n \in ns, d \in ds}

\* a number as it is written
NumText(n) ==
    n.sign \o
    (IF n.kind = "int" THEN NatToStr(n.W)
     ELSE IF n.kind = "dec" THEN NatToStr(n.W) \o <<".">> \o NatToStr(n.N)
     ELSE IF n.kind = "frac" THEN NatToStr(n.N) \o <<"/">> \o NatToStr(n.D)
     ELSE NatToStr(n.W) \o <<" ">> \o NatToStr(n.N) \o <<"/">> \o NatToStr(n.D))

HasZeroDenominator(n) == n.kind \in {"frac", "mixed"} /\ n.D = 0

\* the value a written number denotes (no zero denominator)
NumValue(n) ==
    LET magnitude ==
            IF n.kind = "int" THEN <<n.W, 1>>
            ELSE IF n.kind = "dec"
                 THEN RAdd(<<n.W, 1>>, Rat(n.N, Pow10(Len(NatToStr(n.N)))))
            ELSE IF n.kind = "frac" THEN Rat(n.N, n.D)
            ELSE RAdd(<<n.W, 1>>, Rat(n.N, n.D))
    IN  IF n.sign = <<"-">> THEN RNeg(magnitude) ELSE magnitude

Spaces(k) == [j \in 1..k |-> " "]

\* every spelling with a conversion factor in UNIT_FACTORS
UnitWords == {U_inch, U_inches, U_in, U_foot, U_feet, U_ft, U_millimeter,
              U_millimeters, U_mm, U_centimeter, U_centimeters, U_cm, U_meter,
              U_meters, U_m}

UnitGlyphs == {<<"\"">>, <<DoublePrime>>, <<"'">>, <<Prime>>}

UnitSpellings == UnitWords \cup UnitGlyphs

Capitalized(w) == <<Upper(w[1])>> \o SubSeq(w, 2, Len(w))

\* the unit words in upper case and capitalized
UnitWordsOtherCase == {UpperStr(w) : w \in UnitWords} \cup {Capitalized(w) : w \in UnitWords}

\* words that are no unit of the program
UnknownWords == {<<"f", "u", "r", "l", "o", "n", "g", "s">>,
                 <<"m", "i", "l", "e", "s">>,
                 <<"m", "i", "n", "u", "t", "e", "s">>,
                 <<"i", "n", "k", "w", "e", "l", "l", "s">>,
                 <<"y", "d">>}

Pair(num, gap, unit) == [num |-> num, gap |-> gap, unit |-> unit]

PairText(p) == NumText(p.num) \o Spaces(p.gap) \o p.unit

\* the pairs of a term, written one after another with a space between
RECURSIVE PairsText(_)
PairsText(ps) ==
    IF Len(ps) = 1 THEN PairText(ps[1])
    ELSE PairText(ps[1]) \o <<" ">> \o PairsText(Tail(ps))

\* unsigned numbers with a non-zero whole part and numerator
PlainNums == NumShapes({NoSign}, 1..MaxNum, {1}, 0..MaxNum)

\* one number followed by every spelling of every unit
SinglePairs ==
    {<<Pair(n, g, u)>> : n \in PlainNums, g \in {0, 1}, u \in UnitSpellings}
    \cup {<<Pair(Num(NoSign, "int", 1, 0, 0), g, u)>> : g \in {0, 1}, u \in UnitWordsOtherCase}
    \cup {<<Pair(n, g, u)>> : n \in NumShapes({<<"+">>, <<"-">>}, {1}, {1}, {0, 2}),
                              g \in {0, 1}, u \in UnitSpellings}

\* numbers alone
BareNumbers == {<<Pair(n, 0, <<>>)>> : n \in NumShapes(Signs, 1..MaxNum, {1}, 0..MaxNum)}

\* a number followed by a word that is no unit
UnknownUnitPairs ==
    {<<Pair(n, g, u)>> : n \in NumShapes({NoSign}, 1..MaxNum, {1}, {2}),
                         g \in {0, 1}, u \in UnknownWords}

\* words that UNIT_PAIR_PATTERN's inches? and feet? match in whole or in part
PartialUnitWords == {U_inche, U_fee, UpperStr(U_fee), Capitalized(U_inche),
                     U_fee \o <<"s">>, U_inche \o <<"d">>}

\* a number followed by such a word
PartialUnitPairs ==
    {<<Pair(n, g, u)>> : n \in NumShapes({NoSign}, 1..MaxNum, {1}, {2}),
                         g \in {0, 1}, u \in PartialUnitWords}

\* the pairs that compound terms are made of
PairAtoms ==
    {Pair(Num(NoSign, "int", 5, 0, 0), 1, U_feet),
     Pair(Num(NoSign, "int", 5, 0, 0), 0, <<"'">>),
     Pair(Num(NoSign, "int", 1, 0, 0), 1, U_foot),
     Pair(Num(NoSign, "mixed", 3, 1, 2), 1, U_inches),
     Pair(Num(NoSign, "mixed", 3, 1, 2), 0, <<"\"">>),
     Pair(Num(NoSign, "int", 6, 0, 0), 1, U_inches),
     Pair(Num(NoSign, "frac", 0, 1, 2), 1, U_in),
     Pair(Num(NoSign, "int", 9, 0, 0), 0, U_mm),
     Pair(Num(NoSign, "dec", 2, 5, 0), 1, U_cm),
     Pair(Num(NoSign, "int", 1, 0, 0), 1, U_m)}

\* the longest compound term, in pairs
MaxPairs == 2

CompoundTerms == UNION {[1..k -> PairAtoms] : k \in 2..MaxPairs}

\* a pair of PairAtoms with text that is no pair: before it a fraction over
\* zero, after it a number without unit or an unknown word
LeftoverTerms ==
    {<<Pair(Num(NoSign, "frac", 0, 1, 0), 0, <<>>), p>> : p \in PairAtoms}
    \cup {<<p, Pair(Num(NoSign, "int", 3, 0, 0), 0, <<>>)>> : p \in PairAtoms}
    \cup {<<p, Pair(Num(NoSign, "int", 2, 0, 0), 1, w)>> : p \in PairAtoms, w \in UnknownWords}

ConvertShapes ==
    {[kind |-> "pairs", pairs |-> ps] :
        ps \in SinglePairs \cup BareNumbers \cup UnknownUnitPairs \cup PartialUnitPairs
               \cup CompoundTerms \cup LeftoverTerms}

ParseNumberShapes ==
    {[kind |-> "number", num |-> n, lead |-> l, trail |-> t] :
        n \in NumShapes(Signs, Numbers, Numbers, Numbers), l \in {0, 1}, t \in {0, 1}}

\* texts that are no number
RawTerms == {<<>>, <<"a", "b", "c">>, <<"2", " ", "1", " ", "/", "2">>, <<"5", ".">>,
             <<".", "5">>, <<"-">>, <<"1", "/">>}

ShapeText(sh) ==
    IF sh.kind = "pairs" THEN PairsText(sh.pairs)
    ELSE IF sh.kind = "number" THEN Spaces(sh.lead) \o NumText(sh.num) \o Spaces(sh.trail)
    ELSE sh.text

\* the largest whole part of a value formatted
MaxWhole == 9

\* the largest length formatted that is a whole number of quarter millimeters
MaxQuarterMM == 12

\* the values formatted: the sixty-fourths of an inch and the quarters of a
\* millimeter, of either sign
FormatValues ==
    {Rat(sg * (64 * w + j), 64) : sg \in {-1, 1}, w \in 0..MaxWhole, j \in 0..63}
    \cup {RMul(<<q, 4>>, PerMillimeter) : q \in (-MaxQuarterMM)..MaxQuarterMM}

\* the longest text split, in characters
MaxSplitLen == 4

SplitAlphabet == {"5", "m", " ", "+", ","}

\* the command lines of the tests and of the README
ExampleLines ==
    {<<"2", " ", "1", "/", "2", "\"", " ", "+", " ", "5", ".", "5", "3", "5", "\"", " ", "+", " ", "9", "m", "m">>,
     <<"1", "f", "t", ", ", " ", "5", "i", "n", "c", "h", "e", "s", ", ", " ", "2", "5", ".", "4", "m", "m">>,
     <<"9", "m", "m", " ", "+", " ", "1", "/", "0", " ", "+", " ", "1", "f", "t">>,
     <<"5", " ", "+">>}

\* the texts split: every text over the alphabet, and the examples
SplitTexts == UNION {[1..k -> SplitAlphabet] : k \in 0..MaxSplitLen} \cup ExampleLines

\* the terms main() is run on
MainTerms ==
    {<<"2", " ", "1", "/", "2", "\"">>,
     <<"5", ".", "5", "3", "5", "\"">>,
     <<"9", "m", "m">>,
     <<"1", "f", "t">>,
     <<"1", "2", ".", "5", "m", "m">>,
     <<"-", "2", ".", "5">>,
     <<"5", " ", "f", "u", "r", "l", "o", "n", "g", "s">>,
     <<"1", "/", "0">>}

\* the most arguments on a command line
MaxTerms == 2

\* the terms of test_example_from_readme
ReadmeTerms ==
    <<<<"2", " ", "1", "/", "2", "\"">>,
      <<"5", ".", "5", "3", "5", "\"">>,
      <<"9", "m", "m">>>>

\* the terms of test_multiple_units
MultipleUnitsTerms ==
    <<<<"1", "f", "t">>,
      <<"5", "i", "n", "c", "h", "e", "s">>,
      <<"2", "5", ".", "4", "m", "m">>>>

\* sys.argv[1:]: several terms, or one text to split
ArgLists ==
    UNION {[1..k -> MainTerms] : k \in 1..MaxTerms}
    \cup {<<l>> : l \in ExampleLines}
    \cup {ReadmeTerms, MultipleUnitsTerms}

\* what is typed when there are no arguments
StdinCases ==
    {<<>>, <<<<>>>>, <<<<" ">>, <<"9", "m", "m">>>>,
     <<<<" ", "9", "m", "m", " ">>, <<"1", "f", "t">>>>,
     <<<<"9", "m", "m">>, <<>>, <<"1", "f", "t">>>>,
     <<<<"5", " ", "f", "u", "r", "l", "o", "n", "g", "s">>>>}

(***************************************************************************)
(* The state machine: one call of one entry point per run.                 *)
(***************************************************************************)
\* a call of the function o on the text of shape sh, not made yet
InitRun(o, sh, t, v, a, lines) ==
    /\ op = o
    /\ shape = sh
    /\ term = t
    /\ value_inches = v
    /\ args = a
    /\ stdin = lines
    /\ ret = None
    /\ pc = IF o = "main" THEN "start" ELSE "call"
    /\ input_terms = <<>>
    /\ idx = 0
    /\ total_inches = Zero
    /\ normalized_terms = <<>>
    /\ stdout = <<>>
    /\ stderr = <<>>
    /\ exit_code = -1
    /\ clipboard = None
    /\ fp = [decimal |-> "exact", sixteenth |-> "exact", millimeters |-> "exact"]

\* a call of the function o on the text of shape sh
InitCall(o, sh) == InitRun(o, sh, ShapeText(sh), Zero, <<>>, <<>>)

\* a call of the function o on the value v
InitValueCall(o, v) == InitRun(o, [kind |-> "value"], <<>>, v, <<>>, <<>>)

ValueFunctions == {"format_fractional_inches", "length_utils.format_fractional_inches",
                   "frac_1_16", "format_decimal_inches", "format_millimeters"}

TermFunctions == {"convert_to_inches", "normalize_term_display", "norm_units"}

\* a run of o with the arguments a and the lines typed
InitArgs(o, a, lines) == InitRun(o, [kind |-> "argv"], <<>>, Zero, a, lines)

\* sys.argv[1:] and the lines typed: lines are read only without arguments
CommandLines ==
    {<<a, <<>>>> : a \in ArgLists} \cup {<<<<>>, lines>> : lines \in StdinCases}

Init ==
    \/ \E sh \in ParseNumberShapes \cup {[kind |-> "raw", text |-> t] : t \in RawTerms} :
          InitCall("parse_number", sh)
    \/ \E o \in TermFunctions, sh \in ConvertShapes : InitCall(o, sh)
    \/ \E o \in ValueFunctions, v \in FormatValues : InitValueCall(o, v)
    \/ \E t \in SplitTexts :
          \/ InitRun("split_input_terms", [kind |-> "text"], t, Zero, <<>>, <<>>)
          \/ InitArgs("parse_input_args", <<t>>, <<>>)
    \/ \E c \in CommandLines, o \in {"parse_input_args", "main"} : InitArgs(o, c[1], c[2])

\* the call of a function: what it returns or raises is kept in ret
Call(o, result) ==
    /\ op = o /\ pc = "call"
    /\ ret' = result
    /\ pc' = "returned"
    /\ UNCHANGED <<op, shape, term, value_inches, args, stdin, input_terms, idx,
                   total_inches, normalized_terms, stdout, stderr, exit_code, clipboard, fp>>

Call_parse_number == Call("parse_number", parse_number(term))

Call_convert_to_inches == Call("convert_to_inches", convert_to_inches(term))

Call_format_fractional_inches ==
    Call("format_fractional_inches",
         Returned(format_fractional_inches(value_inches, FRACTIONAL_DENOMINATOR)))

Call_lu_format_fractional_inches ==
    Call("length_utils.format_fractional_inches",
         Returned(lu_format_fractional_inches(value_inches, FRACTIONAL_DENOMINATOR)))

Call_frac_1_16 == Call("frac_1_16", Returned(frac_1_16(value_inches)))

\* the call of a function that rounds a float: fp keeps the sides it fell on
CallRounding(o, result, sides) ==
    /\ op = o /\ pc = "call"
    /\ ret' = result
    /\ fp' = sides
    /\ pc' = "returned"
    /\ UNCHANGED <<op, shape, term, value_inches, args, stdin, input_terms, idx,
                   total_inches, normalized_terms, stdout, stderr, exit_code, clipboard>>

Call_format_decimal_inches ==
    \E side \in Sides :
        CallRounding("format_decimal_inches",
                     Returned(format_decimal_inches(value_inches, DECIMAL_PRECISION, side)),
                     [fp EXCEPT !.decimal = side])

Call_format_millimeters ==
    \E side \in Sides :
        CallRounding("format_millimeters",
                     Returned(format_millimeters(value_inches, MM_PER_INCH, side)),
                     [fp EXCEPT !.millimeters = side])

Call_normalize_term_display ==
    Call("normalize_term_display", Returned(normalize_term_display(term)))

Call_norm_units == Call("norm_units", Returned(norm_units(term)))

Call_split_input_terms == Call("split_input_terms", Returned(split_input_terms(term)))

Call_parse_input_args == Call("parse_input_args", Returned(parse_input_args(args, stdin)))

(***************************************************************************)
(* main().                                                                 *)
(***************************************************************************)
Line(label, text) == [line |-> label, text |-> text]

\* what parse_input_args prints: nothing with arguments; else the invitation,
\* a prompt for each line read, and a new line at the end of the input
RECURSIVE PromptsPrinted(_)
PromptsPrinted(lines) ==
    IF lines = <<>> THEN <<Line("> ", <<>>), Line("", <<>>)>>
    ELSE IF Strip(lines[1]) = <<>> THEN <<Line("> ", <<>>)>>
    ELSE <<Line("> ", <<>>)>> \o PromptsPrinted(Tail(lines))

InputPrinted(a, lines) ==
    IF a # <<>> THEN <<>> ELSE <<Line("Enter lengths", <<>>)>> \o PromptsPrinted(lines)

\* " + ".join(terms)
RECURSIVE JoinPlus(_)
JoinPlus(terms) ==
    IF terms = <<>> THEN <<>>
    ELSE IF Len(terms) = 1 THEN terms[1]
    ELSE terms[1] \o <<" ", "+", " ">> \o JoinPlus(Tail(terms))

\* line 306 with lines 308-310 left out: the run goes on without terms
MainParse_NoEmptyCheck ==
    /\ op = "main" /\ pc = "start"
    /\ input_terms' = parse_input_args(args, stdin)
    /\ stdout' = stdout \o InputPrinted(args, stdin)
    /\ pc' = "convert"
    /\ UNCHANGED <<op, shape, term, value_inches, args, stdin, ret, idx, total_inches,
                   normalized_terms, stderr, clipboard, fp, exit_code>>

\* lines 306-310: the terms are read; none is the end of the run
MainParse ==
    /\ op = "main" /\ pc = "start"
    /\ input_terms' = parse_input_args(args, stdin)
    /\ IF input_terms' = <<>>
       THEN /\ stdout' = stdout \o InputPrinted(args, stdin)
                           \o <<Line("No inputs provided.", <<>>)>>
            /\ exit_code' = 0
            /\ pc' = "exited"
       ELSE /\ stdout' = stdout \o InputPrinted(args, stdin)
            /\ pc' = "convert"
            /\ UNCHANGED exit_code
    /\ UNCHANGED <<op, shape, term, value_inches, args, stdin, ret, idx, total_inches,
                   normalized_terms, stderr, clipboard, fp>>

\* lines 317-322 with the term that fails reported and the loop continued
ConvertTerm_SkipsBadTerm(t, r) ==
    /\ IF r.kind = "return"
       THEN /\ total_inches' = RAdd(total_inches, r.val)
            /\ normalized_terms' = Append(normalized_terms, normalize_term_display(t))
            /\ UNCHANGED stderr
       ELSE /\ stderr' = Append(stderr, [line |-> "Error parsing", term |-> t,
                                         reason |-> r.msg])
            /\ UNCHANGED <<total_inches, normalized_terms>>
    /\ idx' = idx + 1
    /\ UNCHANGED <<exit_code, pc>>

\* lines 317-322 and 347-349: the term t with r, what convert_to_inches(t)
\* returns or raises
ConvertTerm(t, r) ==
    IF r.kind = "return"
    THEN /\ total_inches' = RAdd(total_inches, r.val)
         /\ normalized_terms' = Append(normalized_terms, normalize_term_display(t))
         /\ idx' = idx + 1
         /\ UNCHANGED <<stderr, exit_code, pc>>
    ELSE /\ stderr' = Append(stderr,
                             IF r.exc = "ValueError"
                             THEN [line |-> "Error parsing", term |-> t, reason |-> r.msg]
                             ELSE [line |-> "Unexpected error", term |-> <<>>,
                                   reason |-> r.msg])
         /\ exit_code' = 1
         /\ pc' = "exited"
         /\ UNCHANGED <<total_inches, normalized_terms, idx>>

\* lines 316-322: one turn of the loop
MainConvert ==
    /\ op = "main" /\ pc = "convert" /\ idx < Len(input_terms)
    /\ ConvertTerm(input_terms[idx + 1], convert_to_inches(input_terms[idx + 1]))
    /\ UNCHANGED <<op, shape, term, value_inches, args, stdin, ret, input_terms, stdout,
                   clipboard, fp>>

\* the float arithmetic of lines 129-142 on a pair is exact: the value and
\* the factor are held exactly
ExactPair(value, factor) ==
    /\ value.kind = "return" /\ IsBinary(value.val)
    /\ factor # None /\ IsBinary(factor.val)

ExactNumber(value) == value.kind = "return" /\ IsBinary(value.val)

ExactMatches(stripped, matches) ==
    IF matches = <<>> THEN ExactNumber(parse_number(stripped))
    ELSE \A k \in 1..Len(matches) :
            ExactPair(parse_number(matches[k].val),
                      FactorOf(NormalizeQuoteUnit(LowerStr(matches[k].unit))))

ExactStripped(stripped) == ExactMatches(stripped, UNIT_PAIR_PATTERN(stripped, 1))

\* the float convert_to_inches(t) returns is the value of t exactly
exact_float(t) == ExactStripped(Strip(t))

\* the float total_inches is the sum of the terms exactly
exact_total == \A i \in 1..Len(input_terms) : exact_float(input_terms[i])

\* line 325
decimal_str(side) == decimal_inches(total_inches, DECIMAL_PRECISION, exact_total, side)

\* line 326
fractional_str(side) ==
    fractional_inches(total_inches, FRACTIONAL_DENOMINATOR, exact_total, side)

\* line 328 on the total as line 325 shows it
mm_str_OfDecimal(side) ==
    millimeters(RMul(Rat(round(RMul(total_inches, <<Pow10(DECIMAL_PRECISION), 1>>)),
                         Pow10(DECIMAL_PRECISION)), MM_PER_INCH), side)

\* lines 324 and 328: total_mm, a float product, is rounded
mm_str(side) == millimeters(RMul(total_inches, MM_PER_INCH), side)

\* lines 331-336
ResultsPrinted(sides) ==
    <<Line("Expression:", <<>>),
      Line("sum", <<"s", "u", "m", " ", "(">> \o JoinPlus(normalized_terms) \o <<")">>),
      Line("Result:", <<>>),
      Line("decimal", decimal_str(sides.decimal)),
      Line("fraction", fractional_str(sides.sixteenth)),
      Line("millimeters", mm_str(sides.millimeters))>>

\* lines 324-336: the results are formatted and printed
MainOutput ==
    /\ op = "main" /\ pc = "convert" /\ idx = Len(input_terms)
    /\ fp' \in [decimal : Sides, sixteenth : Sides, millimeters : Sides]
    /\ stdout' = stdout \o ResultsPrinted(fp')
    /\ pc' = "copy"
    /\ UNCHANGED <<op, shape, term, value_inches, args, stdin, ret, input_terms, idx,
                   total_inches, normalized_terms, stderr, exit_code, clipboard>>

\* line 339: the three strings of lines 325-328
clipboard_text == <<decimal_str(fp.decimal), fractional_str(fp.sixteenth),
                    mm_str(fp.millimeters)>>

\* lines 339-342 and copy_to_clipboard: pbcopy takes the three lines, or it
\* is missing or fails, which main() ignores; then main() returns
MainCopy ==
    /\ op = "main" /\ pc = "copy"
    /\ \E copied \in BOOLEAN :
          clipboard' = IF copied THEN Returned(clipboard_text) ELSE clipboard
    /\ exit_code' = 0
    /\ pc' = "exited"
    /\ UNCHANGED <<op, shape, term, value_inches, args, stdin, ret, input_terms, idx,
                   total_inches, normalized_terms, stdout, stderr, fp>>

Next ==
    \/ Call_parse_number
    \/ Call_convert_to_inches
    \/ Call_normalize_term_display
    \/ Call_norm_units
    \/ Call_format_fractional_inches
    \/ Call_lu_format_fractional_inches
    \/ Call_frac_1_16
    \/ Call_format_decimal_inches
    \/ Call_format_millimeters
    \/ Call_split_input_terms
    \/ Call_parse_input_args
    \/ MainParse
    \/ MainConvert
    \/ MainOutput
    \/ MainCopy

Spec == Init /\ [][Next]_vars

(***************************************************************************)
(* The claims.                                                             *)
(***************************************************************************)
Called(o) == op = o /\ pc = "returned"

RaisedValueError == ret.kind = "raise" /\ ret.exc = "ValueError"

\* the sum over the pairs of value * factor(unit)
RECURSIVE PairsSum(_)
PairsSum(ps) ==
    IF ps = <<>> THEN Zero
    ELSE RAdd(RMul(NumValue(ps[1].num), UNIT_FACTORS[LowerStr(ps[1].unit)]),
              PairsSum(Tail(ps)))

\* a term of pairs, each a number and a supported unit spelling
IsPairsTerm ==
    /\ shape.kind = "pairs"
    /\ \A k \in 1..Len(shape.pairs) :
          /\ ~HasZeroDenominator(shape.pairs[k].num)
          /\ LowerStr(shape.pairs[k].unit) \in UnitSpellings

\* C1: convert_to_inches of a term made of k >= 1 value+unit pairs, each value
\* an integer, decimal, fraction or mixed number and each unit a supported
\* spelling, returns the sum over the pairs of value * factor(unit).
C1_SumsEveryPair ==
    (Called("convert_to_inches") /\ IsPairsTerm) => ret = Returned(PairsSum(shape.pairs))

\* a term that is the number 1 followed by a unit spelling in any case
IsOneUnit ==
    /\ shape.kind = "pairs"
    /\ Len(shape.pairs) = 1
    /\ shape.pairs[1].num = Num(NoSign, "int", 1, 0, 0)
    /\ LowerStr(shape.pairs[1].unit) \in UnitSpellings

\* C2: for every spelling with a factor in UNIT_FACTORS, in any letter case,
\* convert_to_inches of "1" followed by the spelling, with or without a space,
\* returns exactly that factor.
C2_UnitRoundTrip ==
    (Called("convert_to_inches") /\ IsOneUnit)
        => ret = Returned(UNIT_FACTORS[LowerStr(shape.pairs[1].unit)])

\* a term that is a number followed by a word that is no supported unit
IsUnknownUnitTerm ==
    /\ shape.kind = "pairs"
    /\ Len(shape.pairs) = 1
    /\ shape.pairs[1].unit \in UnknownWords

\* C3: convert_to_inches of a number followed by a word that is not a supported
\* unit spelling raises ValueError and returns no length.
C3_UnknownUnitRaises ==
    (Called("convert_to_inches") /\ IsUnknownUnitTerm) => RaisedValueError

\* a number with a zero denominator, alone or followed by a unit
IsZeroDenominatorTerm ==
    \/ shape.kind = "number" /\ HasZeroDenominator(shape.num)
    \/ /\ shape.kind = "pairs"
       /\ Len(shape.pairs) = 1
       /\ HasZeroDenominator(shape.pairs[1].num)
       /\ LowerStr(shape.pairs[1].unit) \in UnitSpellings \cup {<<>>}

\* C5: parse_number of N/0 and W N/0, signed or not, and convert_to_inches of
\* such a number alone or followed by a unit, raise ValueError; no call raises
\* ZeroDivisionError or returns the result of a division by zero.
C5_ZeroDenominatorRaises ==
    /\ (pc = "returned" /\ op \in {"parse_number", "convert_to_inches"}
            /\ IsZeroDenominatorTerm) => RaisedValueError
    /\ (pc = "returned" /\ op \in {"parse_number", "convert_to_inches"}
            /\ ret.kind = "raise") => ret.exc = "ValueError"

\* C5's case: a signed N/0 followed by a unit was converted, and was refused
\* for its denominator
C5_Witness ==
    /\ Called("convert_to_inches")
    /\ IsZeroDenominatorTerm
    /\ shape.pairs[1].num.sign = <<"-">>
    /\ shape.pairs[1].unit = U_mm
    /\ ret = Raised("ValueError", "Division by zero in fraction")

\* C6: for non-negative integers W, N and D # 0 and every optional sign,
\* parse_number of "W N/D" is sign * (W + N/D) and of "N/D" is sign * (N/D),
\* whatever the whitespace before and after.
C6_MixedNumberValue ==
    (Called("parse_number") /\ shape.kind = "number"
        /\ shape.num.kind \in {"frac", "mixed"} /\ shape.num.D # 0)
        => ret = Returned(NumValue(shape.num))

\* C6's case: " -2 1/2 " was parsed, and is -5/2
C6_Witness ==
    /\ Called("parse_number")
    /\ shape.kind = "number"
    /\ shape.num = Num(<<"-">>, "mixed", 2, 1, 2)
    /\ shape.lead = 1 /\ shape.trail = 1
    /\ ret = Returned(<<-5, 2>>)

\* the num/den a formatted length shows, if it shows one
ShowsFraction(text) == \E k \in 1..Len(text) : text[k] = "/"

ShownNumerator(text) ==
    LET k == CHOOSE x \in 1..Len(text) : text[x] = "/"
        first == CHOOSE x \in 1..k : /\ \A y \in x..(k - 1) : IsDigit(text[y])
                                     /\ (x = 1 \/ ~IsDigit(text[x - 1]))
    IN  StrToInt(Slice(text, first, k))

ShownDenominator(text) ==
    LET k == CHOOSE x \in 1..Len(text) : text[x] = "/"
    IN  StrToInt(Slice(text, k + 1, k + 1 + Run(IsDigit, text, k + 1)))

\* the fractional part of |v| is at least 31/32, so it rounds to 16/16
RoundsUpToWhole(v) ==
    LET a == RAbs(v)
    IN  ~RLess(RSub(a, <<Trunc(a), 1>>), <<31, 32>>)

FormatsFraction ==
    pc = "returned"
    /\ op \in {"format_fractional_inches", "length_utils.format_fractional_inches"}

\* C7: with the denominator 16, format_fractional_inches shows either no
\* fraction or num/den with den in {2, 4, 8, 16}, 0 < num < den and no common
\* divisor; a fractional part that rounds up to 16/16 increments the whole
\* part and shows no fraction.
C7_ProperLowestTerms ==
    FormatsFraction =>
        /\ ShowsFraction(ret.val) =>
              LET num == ShownNumerator(ret.val)
                  den == ShownDenominator(ret.val)
              IN  /\ den \in {2, 4, 8, 16}
                  /\ 0 < num /\ num < den
                  /\ \A k \in 2..den : ~(num % k = 0 /\ den % k = 0)
        /\ RoundsUpToWhole(value_inches) =>
              ret.val = (IF RLess(value_inches, Zero) THEN <<"-">> ELSE <<>>)
                        \o NatToStr(Trunc(RAbs(value_inches)) + 1) \o <<"\"">>

\* C7's case: 8.5, which rounds to 8/16, was formatted and shows 1/2
C7_Witness ==
    /\ Called("format_fractional_inches")
    /\ value_inches = <<17, 2>>
    /\ ret = Returned(<<"8", " ", "1", "/", "2", "\"">>)

\* the integer nearest to x, a tie going away from zero
NearestAwayFromZero(x) ==
    LET n == (2 * Abs(x[1]) + x[2]) \div (2 * x[2])
    IN  IF x[1] < 0 THEN -n ELSE n

\* twice the distance from x to the integer n
TwiceDistance(x, n) == RMul(<<2, 1>>, RAbs(RSub(x, <<n, 1>>)))

\* text shows the integer nearest to x; when two are as near, the even one
\* if the float computed for x is x, else the one on the side the float fell
ShowsNearestEven(text, x, side) ==
    \E n \in {x[1] \div x[2], (x[1] \div x[2]) + 1} :
        /\ text = IntToStr(n) \o MillimeterSuffix
        /\ ~RLess(<<1, 1>>, TwiceDistance(x, n))
        /\ TwiceDistance(x, n) = <<1, 1>> =>
              CASE side = "exact" -> n % 2 = 0
                [] side = "below" -> n = x[1] \div x[2]
                [] side = "above" -> n = (x[1] \div x[2]) + 1

\* C8 as stated: the millimeter string shows the integer nearest to
\* inches * 25.4, and the one farther from zero when inches * 25.4 is halfway
\* between two integers.
C8_RoundHalfAwayFromZero ==
    /\ Called("format_millimeters") =>
          ret.val = IntToStr(NearestAwayFromZero(RMul(value_inches, MM_PER_INCH)))
                    \o MillimeterSuffix
    /\ \A k \in 1..Len(stdout) :
          (op = "main" /\ stdout[k].line = "millimeters") =>
              stdout[k].text = IntToStr(NearestAwayFromZero(RMul(total_inches, MM_PER_INCH)))
                               \o MillimeterSuffix

\* C8, amended: the millimeter string shows the integer nearest to
\* inches * 25.4, and the even one when the float inches * 25.4 is exactly
\* halfway between two integers.
C8_RoundHalfToEven ==
    /\ Called("format_millimeters") =>
          ShowsNearestEven(ret.val, RMul(value_inches, MM_PER_INCH), fp.millimeters)
    /\ \A k \in 1..Len(stdout) :
          (op = "main" /\ stdout[k].line = "millimeters") =>
              ShowsNearestEven(stdout[k].text, RMul(total_inches, MM_PER_INCH),
                               fp.millimeters)

\* C8's case: a length of exactly 2.5 mm was formatted and shows 2 mm
C8_Witness ==
    /\ Called("format_millimeters")
    /\ RMul(value_inches, MM_PER_INCH) = <<5, 2>>
    /\ fp.millimeters = "exact"
    /\ ret = Returned(<<"2">> \o MillimeterSuffix)

\* the full word of a unit abbreviation or glyph
FullUnitWord(u) ==
    IF u \in {U_in, <<"\"">>, <<DoublePrime>>} THEN U_inches
    ELSE IF u \in {U_ft, <<"'">>, <<Prime>>} THEN U_feet
    ELSE IF u = U_mm THEN U_millimeters
    ELSE IF u = U_cm THEN U_centimeters
    ELSE U_meters

UnitGlyphTexts == {<<"\"">>, <<DoublePrime>>, <<"'">>, <<Prime>>}

\* a term that is one number followed by one of the abbreviations or glyphs
IsAbbreviatedTerm(abbreviations) ==
    /\ shape.kind = "pairs"
    /\ Len(shape.pairs) = 1
    /\ shape.pairs[1].unit \in abbreviations \cup UnitGlyphTexts

NumberSpaceWord == NumText(shape.pairs[1].num) \o <<" ">> \o FullUnitWord(shape.pairs[1].unit)

\* C9: for a term that is a number followed, with or without a space, by a
\* unit abbreviation or glyph, normalize_term_display and norm_units return
\* the number, exactly one space, and the full unit word.
C9_ExpandsWithOneSpace ==
    /\ (Called("normalize_term_display")
          /\ IsAbbreviatedTerm({U_in, U_ft, U_mm, U_cm, U_m}))
       => ret = Returned(NumberSpaceWord)
    /\ (Called("norm_units") /\ IsAbbreviatedTerm({U_in, U_ft, U_mm, U_cm}))
       => ret = Returned(NumberSpaceWord)

IsSeparator(c) == c \in {"+", ","}

HasSeparator(s) == \E i \in 1..Len(s) : IsSeparator(s[i])

\* the texts between the separators of s
RECURSIVE BetweenSeparators(_)
BetweenSeparators(s) ==
    IF ~HasSeparator(s) THEN <<s>>
    ELSE LET i == CHOOSE j \in 1..Len(s) :
                      IsSeparator(s[j]) /\ \A k \in 1..(j - 1) : ~IsSeparator(s[k])
         IN  <<Slice(s, 1, i)>> \o BetweenSeparators(Slice(s, i + 1, Len(s) + 1))

\* the trimmed, non-empty pieces of s between its separators, in order
RECURSIVE Trimmed(_)
Trimmed(pieces) ==
    IF pieces = <<>> THEN <<>>
    ELSE IF Strip(pieces[1]) = <<>> THEN Trimmed(Tail(pieces))
    ELSE <<Strip(pieces[1])>> \o Trimmed(Tail(pieces))

TrimmedPieces(s) == Trimmed(BetweenSeparators(s))

\* C10 as stated: a single string with a separator is returned as its
\* trimmed, non-empty pieces; one without is returned unchanged; several
\* arguments are returned unchanged.
C10_SplitsOnAnySeparator ==
    /\ Called("split_input_terms") =>
          ret.val = IF HasSeparator(term) THEN TrimmedPieces(term) ELSE <<term>>
    /\ (Called("parse_input_args") /\ args # <<>>) =>
          ret.val = IF Len(args) = 1 /\ HasSeparator(args[1])
                    THEN TrimmedPieces(args[1]) ELSE args

\* C10, amended: a single string whose separators leave two or more trimmed,
\* non-empty pieces is returned as those pieces, in order, none containing a
\* separator; any other single string is returned unchanged as a one-element
\* list; several arguments are returned unchanged.
C10_SplitsIntoSeveralPieces ==
    /\ Called("split_input_terms") =>
          /\ ret.val = IF Len(TrimmedPieces(term)) > 1 THEN TrimmedPieces(term)
                       ELSE <<term>>
          /\ Len(TrimmedPieces(term)) > 1 =>
                \A k \in 1..Len(ret.val) : ~HasSeparator(ret.val[k])
    /\ (Called("parse_input_args") /\ args # <<>>) =>
          /\ ret.val = IF Len(args) = 1 /\ Len(TrimmedPieces(args[1])) > 1
                       THEN TrimmedPieces(args[1]) ELSE args
          /\ (Len(args) = 1 /\ Len(TrimmedPieces(args[1])) > 1) =>
                \A k \in 1..Len(ret.val) : ~HasSeparator(ret.val[k])

\* C10's case: a single string with a separator and one piece came back whole
C10_Witness ==
    /\ Called("parse_input_args")
    /\ Len(args) = 1
    /\ HasSeparator(args[1])
    /\ Len(TrimmedPieces(args[1])) = 1
    /\ ret = Returned(args)

\* the terms of the run whose conversion raises
FailingTerms == {i \in 1..Len(input_terms) : convert_to_inches(input_terms[i]).kind = "raise"}

FirstFailing == CHOOSE i \in FailingTerms : \A j \in FailingTerms : i <= j

ResultLines == {"Expression:", "sum", "Result:", "decimal", "fraction", "millimeters"}

\* C4: main processes the terms in order and, at the first term whose
\* conversion raises ValueError, reports that term and the reason and stops
\* with status 1; in that run no Expression/Result line is printed and nothing
\* is copied to the clipboard, whatever terms came before or after.
C4_FailFast ==
    (op = "main" /\ pc # "start" /\ FailingTerms # {}) =>
        /\ \A k \in 1..Len(stdout) : stdout[k].line \notin ResultLines
        /\ clipboard = None
        /\ idx < FirstFailing
        /\ pc \in {"convert", "exited"}
        /\ pc = "convert" => (stderr = <<>> /\ exit_code = -1)
        /\ pc = "exited" =>
              /\ idx = FirstFailing - 1
              /\ exit_code = 1
              /\ stderr = <<[line |-> "Error parsing", term |-> input_terms[FirstFailing],
                             reason |-> convert_to_inches(input_terms[FirstFailing]).msg]>>

\* C4's case: a run stopped at a failing term with terms before and after it
C4_Witness ==
    /\ op = "main" /\ pc = "exited" /\ exit_code = 1
    /\ idx >= 1
    /\ Len(input_terms) > idx + 1
    /\ stderr # <<>>

\* the sum of what convert_to_inches returns for the terms
RECURSIVE SumOfTerms(_)
SumOfTerms(terms) ==
    IF terms = <<>> THEN Zero
    ELSE RAdd(convert_to_inches(terms[1]).val, SumOfTerms(Tail(terms)))

\* the multiples of 1/unit nearest to x: one, or two when x is halfway
NearestMultiples(x, unit) ==
    {Rat(n, unit) : n \in {k \in {Trunc(RMul(x, <<unit, 1>>)) + d : d \in {-1, 0, 1}} :
                              ~RLess(<<1, 1>>, TwiceDistance(RMul(x, <<unit, 1>>), k))}}

\* the text printed on the result line named
Printed(name) == {stdout[k].text : k \in {j \in 1..Len(stdout) : stdout[j].line = name}}

ResultsShown == op = "main" /\ Printed("decimal") # {}

ShowsText(name, text) == Printed(name) = {text}

\* C11: for a list of parseable terms the three result strings are computed
\* from the same unrounded total T, the sum of convert_to_inches over the
\* terms: the decimal string is T to 2 places, the fraction string T to the
\* nearest 1/16, the millimeter string the integer nearest to T * 25.4; the
\* terms of the README give 8.39", 8 3/8" and 213 mm, and 1ft, 5inches,
\* 25.4mm give a total of 18 and 457 mm.
C11_EndToEndSum ==
    ResultsShown =>
        /\ total_inches = SumOfTerms(input_terms)
        /\ \E d \in NearestMultiples(total_inches, Pow10(DECIMAL_PRECISION)) :
              ShowsText("decimal", decimal_inches(d, DECIMAL_PRECISION, TRUE, "exact"))
        /\ \E f \in NearestMultiples(total_inches, FRACTIONAL_DENOMINATOR) :
              ShowsText("fraction", format_fractional_inches(f, FRACTIONAL_DENOMINATOR))
        /\ \E m \in NearestMultiples(RMul(total_inches, MM_PER_INCH), 1) :
              ShowsText("millimeters", IntToStr(m[1]) \o MillimeterSuffix)
        /\ input_terms = ReadmeTerms =>
              /\ ShowsText("decimal", <<"8", ".", "3", "9", "\"">>)
              /\ ShowsText("fraction", <<"8", " ", "3", "/", "8", "\"">>)
              /\ ShowsText("millimeters", <<"2", "1", "3">> \o MillimeterSuffix)
        /\ input_terms = MultipleUnitsTerms =>
              /\ total_inches = <<18, 1>>
              /\ ShowsText("millimeters", <<"4", "5", "7">> \o MillimeterSuffix)

\* C11's case: the run on the terms of the README printed its results and ended
C11_Witness ==
    /\ ResultsShown
    /\ args = ReadmeTerms /\ input_terms = ReadmeTerms
    /\ pc = "exited" /\ exit_code = 0
    /\ ShowsText("fraction", <<"8", " ", "3", "/", "8", "\"">>)

\* a run of main that read no term
EmptyRun == op = "main" /\ pc # "start" /\ input_terms = <<>>

NoResults ==
    /\ \A k \in 1..Len(stdout) : stdout[k].line \notin ResultLines
    /\ clipboard = None

\* C12 as stated: when the term sequence is empty the run prints no
\* Expression/Result output and ends in a failure, never with a success status.
C12_EmptyInputFails ==
    EmptyRun => (NoResults /\ pc = "exited" /\ exit_code # 0)

\* C12, amended: when the term sequence is empty the run prints no
\* Expression/Result output and copies nothing; it prints "No inputs
\* provided." on stdout, nothing on stderr, and ends with status 0.
C12_EmptyInputEndsQuietly ==
    EmptyRun =>
        /\ NoResults
        /\ pc = "exited"
        /\ exit_code = 0
        /\ stderr = <<>>
        /\ stdout # <<>>
        /\ stdout[Len(stdout)] = Line("No inputs provided.", <<>>)
        /\ total_inches = Zero /\ idx = 0

\* C12's case: no argument and no line typed, and the run has ended
C12_Witness ==
    /\ EmptyRun
    /\ args = <<>> /\ stdin = <<>>
    /\ pc = "exited"
    /\ stdout[Len(stdout)] = Line("No inputs provided.", <<>>)

\* the unit lexemes UNIT_PAIR_PATTERN captures in the term t, as
\* convert_to_inches looks them up
CapturedUnits(t) ==
    {NormalizeQuoteUnit(LowerStr(UNIT_PAIR_PATTERN(Strip(t), 1)[k].unit)) :
        k \in 1..Len(UNIT_PAIR_PATTERN(Strip(t), 1))}

\* C13: every unit lexeme that UNIT_PAIR_PATTERN captures is, after
\* lower-casing and glyph normalization, a key of UNIT_FACTORS, and for no term
\* does convert_to_inches raise 'Unsupported unit'.
C13_UnsupportedUnitUnreachable ==
    Called("convert_to_inches") =>
        /\ CapturedUnits(term) \subseteq DOMAIN UNIT_FACTORS
        /\ ret # Raised("ValueError", "Unsupported unit")

\* position i of the text s lies in one of the matches
InMatch(i, matches) == \E k \in 1..Len(matches) : matches[k].start <= i /\ i < matches[k].end

\* every non-blank character of s lies in a pair that was matched; without
\* any pair, s is the single number parse_number matched from end to end
AllInMatches(s, matches) ==
    matches # <<>> => \A i \in 1..Len(s) : IsSpace(s[i]) \/ InMatch(i, matches)

EveryCharacterSummed(t) == AllInMatches(Strip(t), UNIT_PAIR_PATTERN(Strip(t), 1))

\* C14: whenever convert_to_inches returns a value for a term, every non-blank
\* character of the term belongs to one of the pairs that were summed or to
\* the single bare number; a term with a valid pair plus other text raises
\* ValueError.
C14_NothingDropped ==
    (Called("convert_to_inches") /\ ret.kind = "return") => EveryCharacterSummed(term)

FractionFunctions == {"format_fractional_inches", "length_utils.format_fractional_inches",
                      "frac_1_16"}

\* the value formatted is negative and nearer to zero than 1/32
RoundsToNegativeZero == RLess(value_inches, Zero) /\ RLess(<<-1, 32>>, value_inches)

\* C15: format_fractional_inches and frac_1_16 return a string starting with
\* '-' only when the magnitude shown is not zero; for a negative value whose
\* magnitude rounds to zero sixteenths the result is '0"', never '-0"'.
C15_NoNegativeZero ==
    (op \in FractionFunctions /\ pc = "returned") =>
        /\ ret.val # <<"-", "0", "\"">>
        /\ RoundsToNegativeZero => ret.val = <<"0", "\"">>

====
